---- MODULE Spec2Model ----
(***************************************************************************)
(* Model of jules-scratch/verification/verify_image_upload.py: one process *)
(* that enters the sync_playwright() context manager, calls run(), and     *)
(* exits.  run() is a straight line of blocking driver calls; a call       *)
(* either returns or raises, and nothing in the script catches.            *)
(* The web application and the driver are the environment: what a locator  *)
(* resolves to and whether a call answers are chosen nondeterministically. *)
(* Locator semantics are the driver's: a locator action or assertion is    *)
(* strict (exactly one match) unless narrowed with .first, and waits for   *)
(* the element until its timeout fires.                                    *)
(***************************************************************************)
EXTENDS Integers, Sequences, FiniteSets, TLC

\* ---- bounds ----
MaxRuns  == 2    \* successive executions of the script
MaxMatch == 2    \* most elements one locator resolves to

\* ---- literals of the script ----
InputPath  == "jules-scratch/verification/red.png"
OutputPath == "jules-scratch/verification/verification.png"
NumberedPath == "jules-scratch/verification/verification-2.png"

\* A variant that takes the screenshot before waiting for the caption.
OpSeqShotFirst ==
  << "launch", "new_context", "new_page",
     "goto",
     "fill_Email", "fill_Password", "click_SignIn",
     "expect_Users", "click_Users",
     "expect_Chat", "click_Chat_first",
     "set_input_files", "fill_caption", "click_Send",
     "screenshot", "expect_caption", "close" >>

\* The calls of run() in program order (lines 5-43).
OpSeq ==
  << "launch", "new_context", "new_page",
     "goto",
     "fill_Email", "fill_Password", "click_SignIn",
     "expect_Users", "click_Users",
     "expect_Chat", "click_Chat_first",
     "set_input_files", "fill_caption", "click_Send",
     "expect_caption", "screenshot", "close" >>

NOps == Len(OpSeq)

\* Calls that go through a locator (page.get_by_* / page.locator).
LocatorOps ==
  { "fill_Email", "fill_Password", "click_SignIn", "expect_Users",
    "click_Users", "expect_Chat", "click_Chat_first", "set_input_files",
    "fill_caption", "click_Send", "expect_caption" }

\* Calls made on the playwright, browser, context or page object itself.
CallOps ==
  { "launch", "new_context", "new_page", "goto", "screenshot", "close" }

Worlds == { "nominal", "adverse" }

VARIABLES
  run,          \* number of this execution of the script
  world,        \* "nominal": application and driver behave; "adverse": anything
  phase,        \* "run" | "returned" | "raised" | "stopped" | "exited"
  issued,       \* calls started in this execution, in order
  inflight,     \* calls started and not yet resolved
  ndone,        \* calls that returned normally
  failed,       \* the call that raised, or "none"
  usersLinks,   \* links named Users on the page after Sign In
  chatButtons,  \* buttons named Chat on the Users page
  browser,      \* "none" | "open" | "closed" | "killed"
  driver,       \* "running" | "stopped"
  fs,           \* files on disk: set of <<path, content>>
  reads,        \* paths the script read in this execution
  writes,       \* paths the script wrote in this execution
  outBefore,    \* contents at OutputPath when this execution started
  wrote,        \* a screenshot file was written in this execution
  shotMode,     \* "none" | "viewport" | "full_page"
  exitCode,     \* -1 while the process lives
  prevExit      \* exit code of the previous execution, -1 if none

vars == << run, world, phase, issued, inflight, ndone, failed, usersLinks,
           chatButtons, browser, driver, fs, reads, writes, outBefore, wrote,
           shotMode, exitCode, prevExit >>

\* ---- helpers ----
InputPresent == \E f \in fs : f[1] = InputPath

ContentAt(p) == { f[2] : f \in { g \in fs : g[1] = p } }

PathsOf(files) == { f[1] : f \in files }

IsPrefix(s, t) == Len(s) <= Len(t) /\ \A i \in 1..Len(s) : s[i] = t[i]

Done(op) == \E i \in 1..ndone : OpSeq[i] = op

\* What the application renders for a locator, by world.
Rendered(w) == IF w = "nominal" THEN {1} ELSE 0..MaxMatch

\* One Chat button per listed user.
RenderedChat(w) == IF w = "nominal" THEN 1..MaxMatch ELSE 0..MaxMatch

\* Whether the element becomes actionable / the call answers in time.
Answers(w) == IF w = "nominal" THEN {TRUE} ELSE BOOLEAN

\* Number of elements the locator of op resolves to.
Matches(op) ==
  CASE op \in {"expect_Users", "click_Users"}     -> {usersLinks}
    [] op \in {"expect_Chat", "click_Chat_first"} -> {chatButtons}
    [] OTHER                                      -> Rendered(world)

\* Only line 25 narrows its locator with .first.
UsesFirst(op) == op = "click_Chat_first"

\* Outcome of a locator call on n matches.
Succeeds(op, n, ready) ==
  /\ ready
  /\ IF UsesFirst(op) THEN n >= 1 ELSE n = 1
  /\ (op = "set_input_files" => InputPresent)

\* page.screenshot(path=...) passes no full_page argument.
FullPageArg == FALSE

\* The path the screenshot of execution r is written to.
ShotPathNumbered(r) == IF r = 1 THEN OutputPath ELSE NumberedPath
ShotPath(r) == OutputPath

\* ---- initial state: inside `with sync_playwright() as playwright`, run() called ----
Init ==
  /\ run = 1
  /\ world \in Worlds
  /\ phase = "run"
  /\ issued = << >>
  /\ inflight = {}
  /\ ndone = 0
  /\ failed = "none"
  /\ usersLinks = 0
  /\ chatButtons = 0
  /\ browser = "none"
  /\ driver = "running"
  /\ fs \in { {}, { <<InputPath, 0>> } }
  /\ reads = {}
  /\ writes = {}
  /\ outBefore = {}
  /\ wrote = FALSE
  /\ shotMode = "none"
  /\ exitCode = -1
  /\ prevExit = -1

\* A statement of run() starts only when the one before it has returned:
\* every call is synchronous (playwright.sync_api).
IssueAsync ==
  /\ phase = "run"
  /\ Len(issued) < NOps
  /\ issued' = Append(issued, OpSeq[Len(issued) + 1])
  /\ inflight' = inflight \cup { OpSeq[Len(issued) + 1] }
  /\ UNCHANGED << run, world, phase, ndone, failed, usersLinks, chatButtons,
                  browser, driver, fs, reads, writes, outBefore, wrote,
                  shotMode, exitCode, prevExit >>

Issue ==
  /\ phase = "run"
  /\ inflight = {}
  /\ Len(issued) < NOps
  /\ issued' = Append(issued, OpSeq[Len(issued) + 1])
  /\ inflight' = { OpSeq[Len(issued) + 1] }
  /\ UNCHANGED << run, world, phase, ndone, failed, usersLinks, chatButtons,
                  browser, driver, fs, reads, writes, outBefore, wrote,
                  shotMode, exitCode, prevExit >>

\* The call op returns normally: its effect, then control moves to the next line.
Succeed(op) ==
  /\ inflight' = inflight \ {op}
  /\ ndone' = ndone + 1
  /\ browser' = CASE op = "launch" -> "open"
                  [] op = "close"  -> "closed"
                  [] OTHER         -> browser
  /\ IF op = "click_SignIn"
       THEN usersLinks' \in Rendered(world)
       ELSE usersLinks' = usersLinks
  /\ IF op = "click_Users"
       THEN chatButtons' \in RenderedChat(world)
       ELSE chatButtons' = chatButtons
  /\ reads' = IF op = "set_input_files" THEN reads \cup {InputPath} ELSE reads
  /\ IF op = "screenshot"
       THEN /\ fs' = { f \in fs : f[1] # ShotPath(run) } \cup { <<ShotPath(run), run>> }
            /\ writes' = writes \cup { ShotPath(run) }
            /\ wrote' = TRUE
            /\ shotMode' = IF FullPageArg THEN "full_page" ELSE "viewport"
       ELSE UNCHANGED << fs, writes, wrote, shotMode >>
  /\ UNCHANGED << run, world, phase, issued, failed, driver, outBefore,
                  exitCode, prevExit >>

\* A variant in which the error is caught and run() goes on.
FailSwallowed(op) ==
  /\ inflight' = inflight \ {op}
  /\ failed' = op
  /\ ndone' = ndone + 1
  /\ UNCHANGED << run, world, phase, issued, usersLinks, chatButtons, browser,
                  driver, fs, reads, writes, outBefore, wrote, shotMode,
                  exitCode, prevExit >>

\* A variant in which the call has no timeout and blocks for ever.
FailHang(op) ==
  UNCHANGED vars

\* The call op raises (element not found, strictness violation, timeout,
\* missing file): run() has no try/except, the error leaves run().
Fail(op) ==
  /\ inflight' = inflight \ {op}
  /\ failed' = op
  /\ phase' = "raised"
  /\ UNCHANGED << run, world, issued, ndone, usersLinks, chatButtons, browser,
                  driver, fs, reads, writes, outBefore, wrote, shotMode,
                  exitCode, prevExit >>

\* A locator call resolves: lines 13-15, 18, 21, 24-25, 29, 32, 35, 38.
ResolveLocator ==
  /\ phase = "run"
  /\ \E op \in inflight \cap LocatorOps :
       \E n \in Matches(op), ready \in Answers(world) :
         IF Succeeds(op, n, ready) THEN Succeed(op) ELSE Fail(op)

\* A call on the browser, context or page resolves: lines 5-7, 10, 41, 43.
ResolveCall ==
  /\ phase = "run"
  /\ \E op \in inflight \cap CallOps :
       \E ok \in Answers(world) :
         IF ok THEN Succeed(op) ELSE Fail(op)

\* run() falls off its last line.
Return ==
  /\ phase = "run"
  /\ inflight = {}
  /\ Len(issued) = NOps
  /\ phase' = "returned"
  /\ UNCHANGED << run, world, issued, inflight, ndone, failed, usersLinks,
                  chatButtons, browser, driver, fs, reads, writes, outBefore,
                  wrote, shotMode, exitCode, prevExit >>

\* A variant that stops the driver only when run() returned.
ContextExitLeak ==
  /\ phase \in { "returned", "raised" }
  /\ driver' = IF phase = "returned" THEN "stopped" ELSE driver
  /\ browser' = browser
  /\ phase' = "stopped"
  /\ UNCHANGED << run, world, issued, inflight, ndone, failed, usersLinks,
                  chatButtons, fs, reads, writes, outBefore, wrote, shotMode,
                  exitCode, prevExit >>

\* The with-statement of line 45 leaves: __exit__ stops the driver on the
\* normal and on the exceptional path, which ends a browser still open.
ContextExit ==
  /\ phase \in { "returned", "raised" }
  /\ driver' = "stopped"
  /\ browser' = IF browser = "open" THEN "killed" ELSE browser
  /\ phase' = "stopped"
  /\ UNCHANGED << run, world, issued, inflight, ndone, failed, usersLinks,
                  chatButtons, fs, reads, writes, outBefore, wrote, shotMode,
                  exitCode, prevExit >>

\* A variant that reports success whatever happened.
ProcessExitZero ==
  /\ phase = "stopped"
  /\ phase' = "exited"
  /\ exitCode' = 0
  /\ UNCHANGED << run, world, issued, inflight, ndone, failed, usersLinks,
                  chatButtons, browser, driver, fs, reads, writes, outBefore,
                  wrote, shotMode, prevExit >>

\* The interpreter ends: 0 at the end of the module, 1 on an uncaught error.
ProcessExit ==
  /\ phase = "stopped"
  /\ phase' = "exited"
  /\ exitCode' = IF failed = "none" THEN 0 ELSE 1
  /\ UNCHANGED << run, world, issued, inflight, ndone, failed, usersLinks,
                  chatButtons, browser, driver, fs, reads, writes, outBefore,
                  wrote, shotMode, prevExit >>

\* The script is executed again; only the disk survives the process.
Rerun ==
  /\ phase = "exited"
  /\ run < MaxRuns
  /\ run' = run + 1
  /\ world' \in Worlds
  /\ phase' = "run"
  /\ issued' = << >>
  /\ inflight' = {}
  /\ ndone' = 0
  /\ failed' = "none"
  /\ usersLinks' = 0
  /\ chatButtons' = 0
  /\ browser' = "none"
  /\ driver' = "running"
  /\ reads' = {}
  /\ writes' = {}
  /\ outBefore' = ContentAt(OutputPath)
  /\ wrote' = FALSE
  /\ shotMode' = "none"
  /\ exitCode' = -1
  /\ prevExit' = exitCode
  /\ UNCHANGED fs

Next ==
  \/ Issue
  \/ ResolveLocator
  \/ ResolveCall
  \/ Return
  \/ ContextExit
  \/ ProcessExit
  \/ Rerun

Spec == Init /\ [][Next]_vars

\* Every step is a step of the one thread of the process, which runs while it
\* can; a blocked call is ended by the driver's timeout.
LiveSpec == Init /\ [][Next]_vars /\ WF_vars(Next)

\* ======================= properties =======================

\* The order of the UI calls, as the specification lists it.
ClaimOrder ==
  << "goto", "fill_Email", "fill_Password", "click_SignIn", "expect_Users",
     "click_Users", "expect_Chat", "click_Chat_first", "set_input_files",
     "fill_caption", "click_Send", "expect_caption", "screenshot", "close" >>

\* The calls issued after the three set-up calls of lines 5-7.
UIIssued == IF Len(issued) > 3 THEN SubSeq(issued, 4, Len(issued)) ELSE << >>

Resolved == ndone + (IF failed = "none" THEN 0 ELSE 1)

NoDup(s) == \A i, j \in 1..Len(s) : s[i] = s[j] => i = j

Success == phase = "exited" /\ failed = "none" /\ ndone = NOps

\* C1: the UI calls are issued one at a time and in the listed order: at most
\* one call is in flight, and every issued call but the one in flight has
\* resolved before the next is issued.
C1_Sequential ==
  /\ Cardinality(inflight) <= 1
  /\ IsPrefix(UIIssued, ClaimOrder)
  /\ Len(issued) = Resolved + Cardinality(inflight)

C1_Witness == phase = "returned" /\ UIIssued = ClaimOrder

\* C2: fail-fast: once a call has failed, in that execution no further call
\* is issued, nothing is in flight, and no call was or is issued twice.
C2_FailFast ==
  /\ [][ (failed # "none" /\ run' = run)
           => (issued' = issued /\ failed' = failed /\ inflight' = {}) ]_vars
  /\ [](NoDup(issued))
  /\ [](failed # "none" => issued[Len(issued)] = failed)

C2_Witness ==
  phase = "exited" /\ failed = "set_input_files" /\ ~InputPresent

\* C3 as stated: a screenshot is written only after Send message resolved and
\* the caption was seen, and a failed execution has written no screenshot.
C3_NoShotOnAnyFailure ==
  /\ (wrote => (Done("click_Send") /\ Done("expect_caption")))
  /\ (failed # "none" => ~wrote)

\* C3 amended: a screenshot is written only after Send message resolved and
\* the caption was seen, and an execution that fails at any call up to and
\* including the screenshot has written no screenshot.
C3_NoShotBeforeCaption ==
  /\ (wrote => (Done("click_Send") /\ Done("expect_caption")))
  /\ (failed \notin {"none", "close"} => ~wrote)

C3_Witness == phase = "exited" /\ failed = "expect_caption" /\ ~wrote

\* C4: the process exits 0 exactly when every call of run() returned without
\* error; a failed call is never caught and ends the process non-zero.
C4_ExitCode ==
  /\ (phase = "exited" => (exitCode = 0 <=> (failed = "none" /\ ndone = NOps)))
  /\ (failed # "none" => phase \in {"raised", "stopped", "exited"})
  /\ (phase = "exited" /\ failed # "none" => exitCode > 0)

C4_Witness == phase = "exited" /\ exitCode = 0 /\ ndone = NOps

\* C5 as stated: with an application that behaves correctly at every step and
\* the image on disk, an execution that ends has seen the Users link, has
\* written the screenshot and exits 0.
C5_NominalSucceeds ==
  (phase = "exited" /\ world = "nominal" /\ InputPresent)
    => (Done("expect_Users") /\ wrote /\ exitCode = 0)

\* C6 as stated: the screenshot written is a full-page one, at OutputPath.
C6_FullPage ==
  wrote => (shotMode = "full_page" /\ OutputPath \in writes)

\* C7 as stated: with any number n >= 1 of Chat buttons on the Users page of a
\* well-behaved application, the execution passes the Chat wait, clicks the
\* first button and sets the file input.
C7_AnyChatCount ==
  (phase = "exited" /\ world = "nominal" /\ InputPresent
     /\ Done("click_Users") /\ chatButtons >= 1)
    => (Done("expect_Chat") /\ Done("click_Chat_first") /\ Done("set_input_files"))

\* C8 as stated: only InputPath is read and only OutputPath written; a failed
\* execution leaves the output file as it was; a successful one leaves one
\* output file, holding its own screenshot.
C8_FailedRunKeepsOutput ==
  /\ reads \subseteq {InputPath}
  /\ writes \subseteq {OutputPath}
  /\ PathsOf(fs) \subseteq {InputPath, OutputPath}
  /\ (phase = "exited" /\ failed # "none" => ContentAt(OutputPath) = outBefore)
  /\ (Success => ContentAt(OutputPath) = {run})

\* C8 amended: as above, but the output file is left as it was by an execution
\* that fails at any call up to and including the screenshot; one that fails
\* at browser.close() has already overwritten it.
C8_Files ==
  /\ reads \subseteq {InputPath}
  /\ writes \subseteq {OutputPath}
  /\ PathsOf(fs) \subseteq {InputPath, OutputPath}
  /\ (phase = "exited" /\ failed \notin {"none", "close"}
        => ContentAt(OutputPath) = outBefore)
  /\ (phase = "exited" /\ failed = "close" => ContentAt(OutputPath) = {run})
  /\ (Success => ContentAt(OutputPath) = {run})

C8_Witness ==
  run = 2 /\ prevExit = 0 /\ Success /\ outBefore = {1}

\* C9: every execution ends, whatever the application does: a call that is
\* never answered is ended by its timeout.
C9_Terminates == (phase = "run") ~> (phase = "exited")

C9_Witness == phase = "exited" /\ failed = "goto" /\ world = "adverse"

\* C10: browser.close() is issued only when every earlier call returned, and
\* at the end of every execution the driver is stopped and no browser is open.
C10_Released ==
  /\ ("close" \in inflight \/ Done("close") \/ failed = "close"
        => ndone >= NOps - 1)
  /\ (failed \notin {"none", "close"}
        => \A i \in 1..Len(issued) : issued[i] # "close")
  /\ (phase = "exited" => (driver = "stopped" /\ browser # "open"))

C10_Witness ==
  phase = "exited" /\ failed = "expect_Chat" /\ browser = "killed"

====
